---- MODULE Spec2Model ----
(***************************************************************************)
(* Support-desk assistant: the ticket pipeline                             *)
(*   TicketAgentService.process_ticket -> RagService.answer ->             *)
(*   OpenAIClient.generate_rag_response -> PromptValidator ->              *)
(*   ticket_repository.create_ticket                                       *)
(* Strings are sequences of one-character strings, so that str.strip, the  *)
(* substring test `in` and ",".join are computed character by character.   *)
(***************************************************************************)
EXTENDS Integers, Sequences, FiniteSets, TLC

\* ------------------------------------------------------------------ bounds
\* Number of request handlers; each runs one process_ticket call.
NumProcs == 2

Procs == 1..NumProcs

\* --------------------------------------------------------- Python values
\* Optional values: None is the empty tuple, a present value x is <<x>>.
None == <<>>
Some(x) == <<x>>

\* The outcome of a call: a returned value or a raised exception.
Ok(v) == [exc |-> "none", val |-> <<v>>]
Raise(e) == [exc |-> e, val |-> <<>>]

\* JSON / Python values as json.loads produces them.
JNull == [t |-> "null"]
JNum(n) == [t |-> "num", n |-> n]
JStr(s) == [t |-> "str", s |-> s]
JArr(a) == [t |-> "arr", a |-> a]
JObj(o) == [t |-> "obj", o |-> o]

\* ------------------------------------------------------------- str methods
\* Characters str.strip() removes (the ones the model's alphabet has).
Whitespace == {" ", "\n"}

RECURSIVE lstrip(_)
lstrip(s) ==
    IF s # <<>> /\ Head(s) \in Whitespace THEN lstrip(Tail(s)) ELSE s

RECURSIVE rstrip(_)
rstrip(s) ==
    IF s # <<>> /\ s[Len(s)] \in Whitespace
    THEN rstrip(SubSeq(s, 1, Len(s) - 1))
    ELSE s

\* str.strip()
strip(s) == rstrip(lstrip(s))

\* `needle in s` for two strings: substring containment.
contains(needle, s) ==
    \E i \in 1..(Len(s) - Len(needle) + 1) :
        SubSeq(s, i, i + Len(needle) - 1) = needle

\* sep.join(parts) for a sequence of strings.
RECURSIVE join(_, _)
join(sep, parts) ==
    IF parts = <<>> THEN <<>>
    ELSE IF Len(parts) = 1 THEN parts[1]
    ELSE parts[1] \o sep \o join(sep, Tail(parts))

\* ------------------------------------------------------- string literals
INSUFFICIENT_CONTEXT ==
    <<"I", "N", "S", "U", "F", "F", "I", "C", "I", "E", "N", "T", "_",
      "C", "O", "N", "T", "E", "X", "T">>
K_answer == <<"a", "n", "s", "w", "e", "r">>
K_tags == <<"t", "a", "g", "s">>
K_confidence == <<"c", "o", "n", "f", "i", "d", "e", "n", "c", "e">>
high == <<"h", "i", "g", "h">>
medium == <<"m", "e", "d", "i", "u", "m">>
low == <<"l", "o", "w">>

ReasonReply == "Generated reply using knowledge base context via RAG."
ReasonInsufficient ==
    "Knowledge base lacks sufficient information; escalating to human agent."
ReasonNoReply ==
    "Could not generate automated reply; escalating to human agent."

\* dict.get(key, default)
PyGet(o, key, default) == IF key \in DOMAIN o THEN o[key] ELSE default

\* ------------------------------------------------ the Generator's raw text
\* json.dumps: the text of a JSON value.  json.loads below is its inverse on
\* the documents of the model; every other text is a JSONDecodeError.
Digits == <<"0", "1", "2", "3", "4", "5", "6", "7", "8", "9">>

RECURSIVE escape(_)
escape(s) ==
    IF s = <<>> THEN <<>>
    ELSE (IF Head(s) = "\n" THEN <<"\\", "n">> ELSE <<Head(s)>>)
         \o escape(Tail(s))

K_extra == <<"e", "x", "t", "r", "a">>
KeyOrder == <<K_answer, K_tags, K_confidence, K_extra>>

RECURSIVE dumps(_), dumps_items(_), dumps_members(_, _)
dumps(v) ==
    CASE v.t = "null" -> <<"n", "u", "l", "l">>
      [] v.t = "num" -> <<Digits[v.n + 1]>>
      [] v.t = "str" -> <<"\"">> \o escape(v.s) \o <<"\"">>
      [] v.t = "arr" -> <<"[">> \o dumps_items(v.a) \o <<"]">>
      [] v.t = "obj" ->
            <<"{">>
            \o dumps_members(v.o, SelectSeq(KeyOrder, LAMBDA k : k \in DOMAIN v.o))
            \o <<"}">>

dumps_items(a) ==
    IF a = <<>> THEN <<>>
    ELSE IF Len(a) = 1 THEN dumps(a[1])
    ELSE dumps(a[1]) \o <<",", " ">> \o dumps_items(Tail(a))

dumps_members(o, keys) ==
    IF keys = <<>> THEN <<>>
    ELSE dumps(JStr(keys[1])) \o <<":", " ">> \o dumps(o[keys[1]])
         \o (IF Len(keys) = 1 THEN <<>>
             ELSE <<",", " ">> \o dumps_members(o, Tail(keys)))

\* A three-field object {answer, tags, confidence}.
GenObj(a, tg, c) ==
    JObj((K_answer :> a) @@ (K_tags :> tg) @@ (K_confidence :> c))

TagPw == <<"p", "w">>
TagSec == <<"s", "e", "c">>
Tags0 == JArr(<<>>)
Tags1 == JArr(<<JStr(TagSec)>>)
Tags2 == JArr(<<JStr(TagPw), JStr(TagSec)>>)

GoTo == <<"G", "o", " ", "t", "o">>
Sorry == <<"S", "o", "r", "r", "y">>
LowerSentinel ==
    <<"i", "n", "s", "u", "f", "f", "i", "c", "i", "e", "n", "t", "_",
      "c", "o", "n", "t", "e", "x", "t">>

\* Objects that honour the response contract.
WellFormedDocs ==
    { GenObj(JStr(GoTo), Tags2, JStr(high)),
      GenObj(JStr(<<>>), Tags2, JStr(low)),
      GenObj(JStr(<<" ", "\n">>), Tags1, JStr(low)),
      GenObj(JStr(INSUFFICIENT_CONTEXT), Tags1, JStr(low)),
      GenObj(JStr(<<" ">> \o INSUFFICIENT_CONTEXT \o <<"\n">>), Tags1, JStr(low)),
      GenObj(JStr(INSUFFICIENT_CONTEXT \o <<" ">> \o Sorry), Tags2, JStr(medium)),
      GenObj(JStr(LowerSentinel), Tags0, JStr(medium)),
      JObj((K_answer :> JStr(GoTo)) @@ (K_tags :> Tags0)
           @@ (K_confidence :> JStr(medium)) @@ (K_extra :> JNum(1))) }

\* Valid JSON that breaks the contract.
MalformedDocs ==
    { JObj((K_answer :> JStr(GoTo)) @@ (K_tags :> Tags1)),
      GenObj(JNum(1), Tags0, JStr(low)),
      GenObj(JStr(GoTo), JStr(TagPw), JStr(high)),
      GenObj(JStr(GoTo), JArr(<<JNum(1)>>), JStr(high)),
      GenObj(JStr(INSUFFICIENT_CONTEXT), Tags1, JStr(<<"H", "I", "G", "H">>)),
      JNum(4),
      JNull,
      JStr(GoTo),
      JArr(<<JNum(1)>>),
      JArr(<<JStr(K_answer), JStr(K_tags), JStr(K_confidence)>>) }

JsonDocs == WellFormedDocs \cup MalformedDocs

\* Texts that are not JSON at all.
NonJsonTexts ==
    { Sorry, INSUFFICIENT_CONTEXT, <<>>, <<" ", " ">> }

TextOf == [v \in JsonDocs |-> dumps(v)]

\* Every raw text the Generator returns in the model.
RawTexts == {TextOf[v] : v \in JsonDocs} \cup NonJsonTexts

\* json.loads(text): the parsed value, or JSONDecodeError.
json_loads(text) ==
    IF \E v \in JsonDocs : TextOf[v] = text
    THEN Ok(CHOOSE v \in JsonDocs : TextOf[v] = text)
    ELSE Raise("JSONDecodeError")

\* ------------------------------------------------------- PromptValidator
required_fields == <<K_answer, K_tags, K_confidence>>

\* `field in response`, defined for a dict (key), a list (element) and a
\* str (substring); any other operand raises TypeError.
PyIn(field, response) ==
    CASE response.t = "obj" -> field \in DOMAIN response.o
      [] response.t = "arr" ->
            \E i \in 1..Len(response.a) : response.a[i] = JStr(field)
      [] response.t = "str" -> contains(field, response.s)

\* PromptValidator.validate_rag_response: "True", "False", or "TypeError"
\* when an operation on a non-dict response raises.
validate_rag_response(response) ==
    IF response.t \notin {"obj", "arr", "str"} THEN "TypeError"
    ELSE IF ~ \A i \in 1..Len(required_fields) :
                  PyIn(required_fields[i], response) THEN "False"
    ELSE IF response.t # "obj" THEN "TypeError"
    ELSE IF response.o[K_answer].t # "str" THEN "False"
    ELSE IF response.o[K_tags].t # "arr" THEN "False"
    ELSE IF response.o[K_confidence] \notin {JStr(high), JStr(medium), JStr(low)}
         THEN "False"
    ELSE "True"

\* ----------------------------------------------------------- OpenAIClient
\* The safe default of generate_rag_response.
Fallback(response_text) == GenObj(JStr(response_text), JArr(<<>>), JStr(low))

\* A variant that rebuilds the result from the three contract fields.
generate_rag_response_Rebuilt(response_text) ==
    LET parsed == json_loads(response_text) IN
    IF parsed.exc = "JSONDecodeError" THEN Ok(Fallback(response_text))
    ELSE LET result == parsed.val[1]
             valid == validate_rag_response(result) IN
         IF valid = "TypeError" THEN Raise("TypeError")
         ELSE IF valid = "True"
              THEN Ok(GenObj(result.o[K_answer], result.o[K_tags],
                             result.o[K_confidence]))
         ELSE Ok(Fallback(response_text))

\* OpenAIClient.generate_rag_response, from the completion's text onwards.
generate_rag_response(response_text) ==
    LET parsed == json_loads(response_text) IN
    IF parsed.exc = "JSONDecodeError" THEN Ok(Fallback(response_text))
    ELSE LET result == parsed.val[1]
             valid == validate_rag_response(result) IN
         IF valid = "TypeError" THEN Raise("TypeError")
         ELSE IF valid = "True" THEN Ok(result)
         ELSE Ok(Fallback(response_text))

\* ------------------------------------------------------------- RagService
\* What the vector store answers to query_similar in the model: one match.
Matches ==
    { <<[id |-> "doc-1", score |-> 9, metadata |-> [text |-> "Settings > Security"]]>> }

\* The "sources" list RagService.answer builds from the matches.
Sources(matches) ==
    [i \in 1..Len(matches) |->
        [id |-> matches[i].id, score |-> matches[i].score,
         metadata |-> matches[i].metadata]]

\* RagService.answer, from the generation result onwards.
RagAnswer(rag_result, matches) ==
    [answer |-> PyGet(rag_result.o, K_answer, JStr(<<>>)),
     tags |-> PyGet(rag_result.o, K_tags, JArr(<<>>)),
     confidence |-> PyGet(rag_result.o, K_confidence, JStr(low)),
     sources |-> Sources(matches)]

\* ----------------------------------------------------- TicketAgentService
\* A variant that compares the whole answer with the marker.
Decide_ExactMatch(answer) ==
    IF answer # <<>> /\ strip(answer) # <<>> /\ answer # INSUFFICIENT_CONTEXT
    THEN [action |-> "reply", reason |-> ReasonReply]
    ELSE [action |-> "escalate",
          reason |-> IF answer = INSUFFICIENT_CONTEXT
                     THEN ReasonInsufficient
                     ELSE ReasonNoReply]

\* A variant that tests the marker's presence instead of its absence.
Decide_Inverted(answer) ==
    IF answer # <<>> /\ strip(answer) # <<>>
       /\ contains(INSUFFICIENT_CONTEXT, answer)
    THEN [action |-> "reply", reason |-> ReasonReply]
    ELSE [action |-> "escalate",
          reason |-> IF contains(INSUFFICIENT_CONTEXT, answer)
                     THEN ReasonInsufficient
                     ELSE ReasonNoReply]

\* A variant that does not strip the answer before the emptiness test.
Decide_NoStrip(answer) ==
    IF answer # <<>> /\ ~contains(INSUFFICIENT_CONTEXT, answer)
    THEN [action |-> "reply", reason |-> ReasonReply]
    ELSE [action |-> "escalate",
          reason |-> IF contains(INSUFFICIENT_CONTEXT, answer)
                     THEN ReasonInsufficient
                     ELSE ReasonNoReply]

\* The action and reason process_ticket decides for an answer.
Decide(answer) ==
    IF answer # <<>> /\ strip(answer) # <<>>
       /\ ~contains(INSUFFICIENT_CONTEXT, answer)
    THEN [action |-> "reply", reason |-> ReasonReply]
    ELSE [action |-> "escalate",
          reason |-> IF contains(INSUFFICIENT_CONTEXT, answer)
                     THEN ReasonInsufficient
                     ELSE ReasonNoReply]

\* A variant that passes the answer as the reply on every branch.
ReplyField_Always(action, answer) == Some(answer)

\* `reply=answer if action == "reply" else None`
ReplyField(action, answer) ==
    IF action = "reply" THEN Some(answer) ELSE None

\* `if not isinstance(tags, list): tags = []`
TagList(tags) == IF tags.t = "arr" THEN tags.a ELSE <<>>

\* ------------------------------------------------------ ticket_repository
\* ",".join(tags) raises TypeError unless every item is a str.
AllStr(tags) == \A i \in 1..Len(tags) : tags[i].t = "str"

tags_str(tags) == join(<<",">>, [i \in 1..Len(tags) |-> tags[i].s])

\* A variant that stores no tags for an escalated ticket.
NewTicket_NoTagsOnEscalate(text, action, reply, tags, reason, human_label) ==
    [text |-> text, action |-> action, reply |-> reply,
     tags |-> IF action = "escalate" \/ tags = None
              THEN None ELSE Some(tags_str(tags[1])),
     reason |-> reason, human_label |-> human_label]

\* A variant that stores missing tags as the empty string.
NewTicket_NullTagsAsEmpty(text, action, reply, tags, reason, human_label) ==
    [text |-> text, action |-> action, reply |-> reply,
     tags |-> IF tags = None THEN Some(<<>>) ELSE Some(tags_str(tags[1])),
     reason |-> reason, human_label |-> human_label]

\* The Ticket row create_ticket builds (id and created_at are the store's):
\* `tags_str = ",".join(tags) if tags is not None else None`.
NewTicket(text, action, reply, tags, reason, human_label) ==
    [text |-> text, action |-> action, reply |-> reply,
     tags |-> IF tags = None THEN None ELSE Some(tags_str(tags[1])),
     reason |-> reason, human_label |-> human_label]

\* A variant that hands out the largest id in the table again.
NextId_Reuse(tickets) ==
    IF tickets = <<>> THEN 1 ELSE tickets[Len(tickets)].id

\* SQLite's INTEGER PRIMARY KEY: one more than the largest id in the table.
NextId(tickets) ==
    IF tickets = <<>> THEN 1 ELSE tickets[Len(tickets)].id + 1

\* The ticket texts submitted in the model.
Texts == {"How do I reset my password?"}

\* ------------------------------------------------------------------ state
VARIABLES
    pc,             \* where each process_ticket call stands
    text,           \* the request's text, process_ticket's argument
    matches,        \* RagService.answer: the retrieved matches
    response_text,  \* generate_rag_response: the completion's raw text
    gen_result,     \* RagService.answer: what generate_rag_response returned
    rag_result,     \* process_ticket: what RagService.answer returned
    tags,           \* process_ticket: the tag list
    ticket,         \* create_ticket: the row added to the session
    result,         \* what process_ticket returned
    exc,            \* the exception raised inside the call
    create_calls,   \* how often each call has invoked create_ticket
    store,          \* the tickets table, in id order
    now,            \* the database clock, read by func.now() at each insert
    call,           \* the latest direct call of a function and its outcome
    settings,       \* get_settings(): the cached Settings object
    SESSION_USAGE,  \* dependencies.SESSION_USAGE: session id -> usage dict
    heap,           \* the usage dicts SESSION_USAGE's values refer to
    clock,          \* time.time(), in seconds
    admits,         \* the requests check_rate_limit admitted, in order
    frame,          \* each thread's running function, position and locals
    _rag_service,           \* rag_service._rag_service
    _ticket_agent_service,  \* ticket_workflow._ticket_agent_service
    constructed     \* how many instances of each service were constructed

\* The module globals and thread frames outside the ticket pipeline.
globals == <<settings, SESSION_USAGE, heap, clock, admits, frame,
             _rag_service, _ticket_agent_service, constructed>>

vars == <<pc, text, matches, response_text, gen_result, rag_result, tags,
          ticket, result, exc, create_calls, store, now, call, globals>>

\* Settings(): the values the class declares, with no environment override.
Settings ==
    [APP_MODE |-> "prod", OWNER_KEY |-> "", RATE_LIMIT_ENABLED |-> TRUE]

Init ==
    /\ pc = [p \in Procs |-> "idle"]
    /\ text = [p \in Procs |-> None]
    /\ matches = [p \in Procs |-> None]
    /\ response_text = [p \in Procs |-> None]
    /\ gen_result = [p \in Procs |-> None]
    /\ rag_result = [p \in Procs |-> None]
    /\ tags = [p \in Procs |-> None]
    /\ ticket = [p \in Procs |-> None]
    /\ result = [p \in Procs |-> None]
    /\ exc = [p \in Procs |-> "none"]
    /\ create_calls = [p \in Procs |-> 0]
    /\ store = <<>>
    /\ now = 0
    /\ call = None
    /\ settings = Settings
    /\ SESSION_USAGE = <<>>
    /\ heap = <<>>
    /\ clock = 0
    /\ admits = <<>>
    /\ frame = [p \in Procs |-> None]
    /\ _rag_service = None
    /\ _ticket_agent_service = None
    /\ constructed = [RagService |-> 0, TicketAgentService |-> 0]

\* A variant that answers from the result of an earlier call with the same
\* text when there is one.
ProcessTicket_Cached(p, t) ==
    /\ pc[p] = "idle"
    /\ text' = [text EXCEPT ![p] = Some(t)]
    /\ IF \E q \in Procs : pc[q] = "done" /\ text[q] = Some(t)
       THEN LET q == CHOOSE r \in Procs : pc[r] = "done" /\ text[r] = Some(t)
            IN  /\ pc' = [pc EXCEPT ![p] = "done"]
                /\ result' = [result EXCEPT ![p] = result[q]]
       ELSE /\ pc' = [pc EXCEPT ![p] = "query_similar"]
            /\ result' = result
    /\ UNCHANGED <<matches, response_text, gen_result, rag_result, tags,
                   ticket, exc, create_calls, store, now, call, globals>>

\* POST /tickets/agent: process_ticket is entered and calls RagService.answer,
\* which asks the vector store for matches.
ProcessTicket(p, t) ==
    /\ pc[p] = "idle"
    /\ pc' = [pc EXCEPT ![p] = "query_similar"]
    /\ text' = [text EXCEPT ![p] = Some(t)]
    /\ UNCHANGED <<matches, response_text, gen_result, rag_result, tags,
                   ticket, result, exc, create_calls, store, now>>
    /\ UNCHANGED <<call, globals>>

\* The Retriever answers; answer() builds the prompt and calls the Generator.
QuerySimilarReturns(p, m) ==
    /\ pc[p] = "query_similar"
    /\ pc' = [pc EXCEPT ![p] = "chat_completion"]
    /\ matches' = [matches EXCEPT ![p] = Some(m)]
    /\ UNCHANGED <<text, response_text, gen_result, rag_result, tags,
                   ticket, result, exc, create_calls, store, now>>
    /\ UNCHANGED <<call, globals>>

\* A variant that catches the Retriever's error and files a placeholder.
QuerySimilarRaises_Swallowed(p) ==
    /\ pc[p] = "query_similar"
    /\ pc' = [pc EXCEPT ![p] = "commit"]
    /\ exc' = [exc EXCEPT ![p] = "VectorStoreError"]
    /\ tags' = [tags EXCEPT ![p] = Some(<<>>)]
    /\ create_calls' = [create_calls EXCEPT ![p] = @ + 1]
    /\ ticket' = [ticket EXCEPT ![p] =
          Some(NewTicket(text[p][1], "escalate", None, Some(<<>>),
                          Some(ReasonNoReply), None))]
    /\ UNCHANGED <<text, matches, response_text, gen_result, rag_result,
                   result, store, now>>
    /\ UNCHANGED <<call, globals>>

\* The Retriever raises: nothing in answer() or process_ticket catches it.
QuerySimilarRaises(p) ==
    /\ pc[p] = "query_similar"
    /\ pc' = [pc EXCEPT ![p] = "raised"]
    /\ exc' = [exc EXCEPT ![p] = "VectorStoreError"]
    /\ UNCHANGED <<text, matches, response_text, gen_result, rag_result,
                   tags, ticket, result, create_calls, store, now>>
    /\ UNCHANGED <<call, globals>>

\* The Generator raises: nothing on the way up catches it.
ChatCompletionRaises(p) ==
    /\ pc[p] = "chat_completion"
    /\ pc' = [pc EXCEPT ![p] = "raised"]
    /\ exc' = [exc EXCEPT ![p] = "OpenAIError"]
    /\ UNCHANGED <<text, matches, response_text, gen_result, rag_result,
                   tags, ticket, result, create_calls, store, now>>
    /\ UNCHANGED <<call, globals>>

\* The Generator returns raw text: generate_rag_response parses and validates
\* it, answer() returns, process_ticket decides and calls create_ticket, which
\* joins the tags, adds the row to the session and commits.
ChatCompletionReturns(p, raw) ==
    /\ pc[p] = "chat_completion"
    /\ response_text' = [response_text EXCEPT ![p] = Some(raw)]
    /\ LET gen == generate_rag_response(raw) IN
       IF gen.exc # "none"
       THEN /\ pc' = [pc EXCEPT ![p] = "raised"]
            /\ exc' = [exc EXCEPT ![p] = gen.exc]
            /\ UNCHANGED <<gen_result, rag_result, tags, ticket, create_calls>>
       ELSE LET rr == RagAnswer(gen.val[1], matches[p][1])
                answer == rr.answer.s
                tl == TagList(rr.tags)
                d == Decide(answer)
            IN  /\ gen_result' = [gen_result EXCEPT ![p] = Some(gen.val[1])]
                /\ rag_result' = [rag_result EXCEPT ![p] = Some(rr)]
                /\ tags' = [tags EXCEPT ![p] = Some(tl)]
                /\ create_calls' = [create_calls EXCEPT ![p] = @ + 1]
                /\ IF AllStr(tl)
                   THEN /\ ticket' = [ticket EXCEPT ![p] =
                              Some(NewTicket(text[p][1], d.action,
                                   ReplyField(d.action, answer),
                                   Some(tl), Some(d.reason), None))]
                        /\ pc' = [pc EXCEPT ![p] = "commit"]
                        /\ exc' = exc
                   ELSE /\ ticket' = ticket
                        /\ pc' = [pc EXCEPT ![p] = "raised"]
                        /\ exc' = [exc EXCEPT ![p] = "TypeError"]
    /\ UNCHANGED <<text, matches, result, store, now>>
    /\ UNCHANGED <<call, globals>>

\* A variant that inserts the row twice.
Commit_Twice(p) ==
    /\ pc[p] = "commit"
    /\ LET row == ticket[p][1]
           rec == [id |-> NextId(store), text |-> row.text,
                   action |-> row.action, reply |-> row.reply,
                   tags |-> row.tags, reason |-> row.reason,
                   created_at |-> now, human_label |-> row.human_label]
       IN  /\ store' = Append(Append(store, rec), [rec EXCEPT !.id = @ + 1])
           /\ result' = [result EXCEPT ![p] =
                 Some([id |-> rec.id, action |-> rec.action,
                       reply |-> rec.reply, tags |-> tags[p][1],
                       reason |-> rec.reason[1]])]
    /\ pc' = [pc EXCEPT ![p] = "done"]
    /\ now' = now + 1
    /\ UNCHANGED <<text, matches, response_text, gen_result, rag_result,
                   tags, ticket, exc, create_calls>>
    /\ UNCHANGED <<call, globals>>

\* db.commit() and db.refresh(): the row is inserted with the next id and the
\* clock's time, and the clock moves on; process_ticket returns its result.
Commit(p) ==
    /\ pc[p] = "commit"
    /\ LET row == ticket[p][1]
           rec == [id |-> NextId(store), text |-> row.text,
                   action |-> row.action, reply |-> row.reply,
                   tags |-> row.tags, reason |-> row.reason,
                   created_at |-> now, human_label |-> row.human_label]
       IN  /\ store' = Append(store, rec)
           /\ result' = [result EXCEPT ![p] =
                 Some([id |-> rec.id, action |-> rec.action,
                       reply |-> rec.reply, tags |-> tags[p][1],
                       reason |-> rec.reason[1]])]
    /\ pc' = [pc EXCEPT ![p] = "done"]
    /\ now' = now + 1
    /\ UNCHANGED <<text, matches, response_text, gen_result, rag_result,
                   tags, ticket, exc, create_calls>>
    /\ UNCHANGED <<call, globals>>

Next ==
    \/ \E p \in Procs, t \in Texts : ProcessTicket(p, t)
    \/ \E p \in Procs, m \in Matches : QuerySimilarReturns(p, m)
    \/ \E p \in Procs : QuerySimilarRaises(p)
    \/ \E p \in Procs, raw \in RawTexts : ChatCompletionReturns(p, raw)
    \/ \E p \in Procs : ChatCompletionRaises(p)
    \/ \E p \in Procs : Commit(p)

Spec == Init /\ [][Next]_vars

\* ================================================================ properties
\* The calls whose decision has been taken and handed to create_ticket.
Decided == {p \in Procs : pc[p] \in {"commit", "done"}}
Returned == {p \in Procs : pc[p] = "done"}

\* The generation result's answer and tags, as process_ticket received them.
AnswerOf(p) == rag_result[p][1].answer.s
GenTagsOf(p) == gen_result[p][1].o[K_tags].a

\* The record a returned call created.
RecordOf(p) == CHOOSE r \in {store[i] : i \in DOMAIN store} : r.id = result[p][1].id

UpstreamErrors == {"VectorStoreError", "OpenAIError"}

\* C1: when the Retriever or the Generator raises, the call ends with that
\* exception, create_ticket is never invoked, no row is pending, nothing is
\* returned, and the store holds only the records of the calls that returned.
C1_UpstreamFailureCreatesNothing ==
    /\ \A p \in Procs :
          exc[p] \in UpstreamErrors =>
              /\ pc[p] = "raised"
              /\ create_calls[p] = 0
              /\ ticket[p] = None
              /\ result[p] = None
    /\ Len(store) = Cardinality(Returned)

C1_Witness ==
    \E p, q \in Procs :
        /\ exc[p] = "OpenAIError"
        /\ pc[q] = "done"
        /\ Len(store) = 1

\* C2: an answer that equals the marker after trimming is escalated, with the
\* reason that the knowledge base lacks sufficient information.
C2_SentinelEscalates ==
    \A p \in Decided :
        strip(AnswerOf(p)) = INSUFFICIENT_CONTEXT =>
            /\ ticket[p][1].action = "escalate"
            /\ ticket[p][1].reason = Some(ReasonInsufficient)
            /\ pc[p] = "done" =>
                  /\ result[p][1].action = "escalate"
                  /\ result[p][1].reason = ReasonInsufficient

C2_Witness ==
    \E p \in Returned :
        /\ AnswerOf(p) # INSUFFICIENT_CONTEXT
        /\ strip(AnswerOf(p)) = INSUFFICIENT_CONTEXT
        /\ result[p][1].action = "escalate"

\* C3 as stated: an answer that is non-empty after trimming and is not exactly
\* the marker gets action reply with the knowledge-base reason.
C3_Original ==
    \A p \in Decided :
        (strip(AnswerOf(p)) # <<>> /\ strip(AnswerOf(p)) # INSUFFICIENT_CONTEXT) =>
            /\ ticket[p][1].action = "reply"
            /\ ticket[p][1].reason = Some(ReasonReply)

\* C3 as amended: an answer that is non-empty after trimming and does not
\* contain the marker anywhere gets action reply with the knowledge-base
\* reason; an answer that contains the marker among other text is escalated.
C3_ReplyUnlessMarkerContained ==
    \A p \in Decided :
        /\ (strip(AnswerOf(p)) # <<>> /\ ~contains(INSUFFICIENT_CONTEXT, AnswerOf(p))) =>
              /\ ticket[p][1].action = "reply"
              /\ ticket[p][1].reason = Some(ReasonReply)
              /\ pc[p] = "done" => result[p][1].action = "reply"
        /\ contains(INSUFFICIENT_CONTEXT, AnswerOf(p)) =>
              ticket[p][1].action = "escalate"

C3_Witness ==
    \E p, q \in Returned :
        /\ AnswerOf(p) = LowerSentinel
        /\ result[p][1].action = "reply"
        /\ strip(AnswerOf(q)) # INSUFFICIENT_CONTEXT
        /\ contains(INSUFFICIENT_CONTEXT, AnswerOf(q))
        /\ result[q][1].action = "escalate"

\* C4: an empty or whitespace-only answer is escalated with the reason that no
\* automated reply could be generated, and with no reply; the decision is the
\* same for both.
C4_BlankEscalates ==
    \A p \in Decided :
        strip(AnswerOf(p)) = <<>> =>
            /\ ticket[p][1].action = "escalate"
            /\ ticket[p][1].reason = Some(ReasonNoReply)
            /\ ticket[p][1].reply = None

C4_Witness ==
    \E p, q \in Returned :
        /\ AnswerOf(p) = <<>>
        /\ AnswerOf(q) # <<>>
        /\ strip(AnswerOf(q)) = <<>>
        /\ result[p][1].action = "escalate"
        /\ result[q][1].action = result[p][1].action
        /\ result[q][1].reason = result[p][1].reason
        /\ result[q][1].reply = result[p][1].reply

\* The response contract: an object with answer a string, tags a sequence of
\* strings and confidence one of high, medium, low.
IsGenerationResult(v) ==
    /\ v.t = "obj"
    /\ {K_answer, K_tags, K_confidence} \subseteq DOMAIN v.o
    /\ v.o[K_answer].t = "str"
    /\ v.o[K_tags].t = "arr"
    /\ \A i \in 1..Len(v.o[K_tags].a) : v.o[K_tags].a[i].t = "str"
    /\ v.o[K_confidence] \in {JStr(high), JStr(medium), JStr(low)}

\* The raw texts that parse as a value honouring the contract.
ConformingTexts == {TextOf[v] : v \in {d \in JsonDocs : IsGenerationResult(d)}}

\* C5: for a raw text that does not parse as a contract object,
\* generate_rag_response returns the fallback {raw text, [], low} and does
\* not raise.
C5_MalformedGivesFallback ==
    \A p \in Procs :
        (response_text[p] # None /\ response_text[p][1] \notin ConformingTexts) =>
            /\ exc[p] # "TypeError"
            /\ gen_result[p] = Some(Fallback(response_text[p][1]))

\* C6: for a raw text that is a contract object, generate_rag_response
\* returns the parsed object itself, every field of it included.
C6_WellFormedReturnedUnchanged ==
    \A p \in Procs : \A v \in JsonDocs :
        (IsGenerationResult(v) /\ response_text[p] = Some(TextOf[v])) =>
            gen_result[p] = Some(v)

C6_Witness ==
    \E p \in Procs :
        /\ response_text[p] # None
        /\ response_text[p][1] \in ConformingTexts
        /\ gen_result[p] # None
        /\ K_extra \in DOMAIN gen_result[p][1].o

\* C7: whatever text the Generator returns, process_ticket does not raise.
C7_GeneratedTextNeverRaises ==
    \A p \in Procs : response_text[p] # None => pc[p] # "raised"

\* C8: a call that returns has invoked create_ticket once; the step in which it
\* returns adds one record to the store; no step changes or removes a record
\* that is already there, and no other step adds one.
C8_OneCreateNoUpdate ==
    [][ /\ \A i \in DOMAIN store : i \in DOMAIN store' /\ store'[i] = store[i]
        /\ Len(store') - Len(store)
             = Cardinality({p \in Procs : pc[p] # "done" /\ pc'[p] = "done"})
        /\ \A p \in Procs : pc'[p] = "done" => create_calls'[p] = 1 ]_vars

C8_Witness ==
    /\ Len(store) = 2
    /\ \A p \in Procs : pc[p] = "done" /\ create_calls[p] = 1

\* C9: every record of the store was created by a returned call; its reply is
\* null exactly when its action is escalate, its reply is the generation
\* result's answer when its action is reply, and the row was created with
\* human_label null.
C9_ReplyNullIffEscalate ==
    /\ \A i \in DOMAIN store : \E p \in Returned : result[p][1].id = store[i].id
    /\ \A p \in Returned :
          /\ RecordOf(p).reply = None <=> RecordOf(p).action = "escalate"
          /\ RecordOf(p).action = "reply" => RecordOf(p).reply = Some(AnswerOf(p))
          /\ RecordOf(p).action \in {"reply", "escalate"}
          /\ ticket[p][1].human_label = None

C9_Witness ==
    \E p, q \in Returned :
        /\ RecordOf(p).action = "reply" /\ RecordOf(p).reply = Some(GoTo)
        /\ RecordOf(q).action = "escalate" /\ RecordOf(q).reply = None
        /\ AnswerOf(q) # <<>>

\* The tags as one string, each but the last followed by a comma.
RECURSIVE CommaJoined(_)
CommaJoined(ts) ==
    IF ts = <<>> THEN <<>>
    ELSE ts[1].s \o (IF Len(ts) = 1 THEN <<>> ELSE <<",">> \o CommaJoined(Tail(ts)))

\* C10: on the reply branch and on the escalate branch alike, the call returns
\* the generation result's tag list as it is and stores the same tags, in the
\* same order, comma-joined.
C10_TagsPassThrough ==
    \A p \in Decided :
        /\ tags[p] = Some(GenTagsOf(p))
        /\ ticket[p][1].tags = Some(CommaJoined(GenTagsOf(p)))
        /\ pc[p] = "done" =>
              /\ result[p][1].tags = GenTagsOf(p)
              /\ RecordOf(p).tags = Some(CommaJoined(GenTagsOf(p)))

C10_Witness ==
    \E p, q \in Returned :
        /\ result[p][1].action = "escalate"
        /\ Len(result[p][1].tags) = 2
        /\ RecordOf(p).tags = Some(TagPw \o <<",">> \o TagSec)
        /\ result[q][1].action = "reply"
        /\ Len(result[q][1].tags) = 2


\* ========================================================= the ticket store
\* The repository's functions called directly, and the feedback endpoint.
MaxTickets == 2

TicketIds == 0..(MaxTickets + 1)

Labels == {"correct", "incorrect"}

\* The tags arguments of create_ticket: none, an empty list, two tags.
TagA == JStr(<<"a">>)
TagB == JStr(<<"b">>)
TagArgs == {None, Some(<<>>), Some(<<TagA, TagB>>)}

\* The arguments of the create_ticket calls made in the model.
CreateArgs ==
    {[text |-> "How do I reset my password?", action |-> "reply",
      reply |-> Some(GoTo), tags |-> tg, reason |-> Some(ReasonReply)]
        : tg \in TagArgs}
    \cup
    {[text |-> "My account is locked", action |-> "escalate",
      reply |-> None, tags |-> tg, reason |-> None] : tg \in TagArgs}

\* `db.query(Ticket).filter(Ticket.id == ticket_id).first()`
get_ticket(tickets, ticket_id) ==
    IF \E i \in DOMAIN tickets : tickets[i].id = ticket_id
    THEN Some(tickets[CHOOSE i \in DOMAIN tickets : tickets[i].id = ticket_id])
    ELSE None

\* A variant that inserts a labelled row when the id is unknown.
update_ticket_feedback_Upsert(tickets, ticket_id, human_label) ==
    IF get_ticket(tickets, ticket_id) = None
    THEN LET t2 == [id |-> ticket_id, text |-> "", action |-> None,
                    reply |-> None, tags |-> None, reason |-> None,
                    created_at |-> 0, human_label |-> Some(human_label)]
         IN  [tickets |-> Append(tickets, t2), ret |-> Some(t2),
              committed |-> TRUE]
    ELSE LET i == CHOOSE j \in DOMAIN tickets : tickets[j].id = ticket_id
             t2 == [tickets[i] EXCEPT !.human_label = Some(human_label)]
         IN  [tickets |-> [tickets EXCEPT ![i] = t2], ret |-> Some(t2),
              committed |-> TRUE]

\* A variant whose UPDATE has no WHERE clause: every row gets the label.
update_ticket_feedback_AllRows(tickets, ticket_id, human_label) ==
    IF get_ticket(tickets, ticket_id) = None
    THEN [tickets |-> tickets, ret |-> None, committed |-> FALSE]
    ELSE LET i == CHOOSE j \in DOMAIN tickets : tickets[j].id = ticket_id
             all == [j \in DOMAIN tickets |->
                        [tickets[j] EXCEPT !.human_label = Some(human_label)]]
         IN  [tickets |-> all, ret |-> Some(all[i]), committed |-> TRUE]

\* update_ticket_feedback: the table afterwards, the value returned and
\* whether db.commit() was reached.
update_ticket_feedback(tickets, ticket_id, human_label) ==
    IF get_ticket(tickets, ticket_id) = None
    THEN [tickets |-> tickets, ret |-> None, committed |-> FALSE]
    ELSE LET i == CHOOSE j \in DOMAIN tickets : tickets[j].id = ticket_id
             t2 == [tickets[i] EXCEPT !.human_label = Some(human_label)]
         IN  [tickets |-> [tickets EXCEPT ![i] = t2], ret |-> Some(t2),
              committed |-> TRUE]

\* str.split with a one-character separator.
RECURSIVE split(_, _)
split(s, sep) ==
    IF \A k \in 1..Len(s) : s[k] # sep
    THEN <<s>>
    ELSE LET k == CHOOSE j \in 1..Len(s) :
                     s[j] = sep /\ \A m \in 1..(j - 1) : s[m] # sep
         IN  <<SubSeq(s, 1, k - 1)>> \o split(SubSeq(s, k + 1, Len(s)), sep)

\* The TicketRecord the endpoints build from a row:
\* `tags=ticket.tags.split(",") if ticket.tags else []`.
TicketRecord(t) ==
    [id |-> t.id, text |-> t.text, action |-> t.action, reply |-> t.reply,
     tags |-> IF t.tags = None \/ t.tags = Some(<<>>)
              THEN <<>> ELSE split(t.tags[1], ","),
     reason |-> t.reason, created_at |-> t.created_at,
     human_label |-> t.human_label]

pipeline == <<pc, text, matches, response_text, gen_result, rag_result, tags,
              ticket, result, exc, create_calls>>

\* create_ticket called directly: the row is built, added and committed.
CreateTicket(a) ==
    /\ Len(store) < MaxTickets
    /\ LET row == NewTicket(a.text, a.action, a.reply, a.tags, a.reason, None)
           rec == [id |-> NextId(store), text |-> row.text,
                   action |-> row.action, reply |-> row.reply,
                   tags |-> row.tags, reason |-> row.reason,
                   created_at |-> now, human_label |-> row.human_label]
       IN  /\ store' = Append(store, rec)
           /\ call' = Some([fn |-> "create_ticket", args |-> a,
                            ret |-> Some(rec), committed |-> TRUE])
    /\ now' = now + 1
    /\ UNCHANGED <<pipeline, globals>>

\* get_ticket called directly.
GetTicket(ticket_id) ==
    /\ call' = Some([fn |-> "get_ticket", ticket_id |-> ticket_id,
                     ret |-> get_ticket(store, ticket_id),
                     committed |-> FALSE])
    /\ UNCHANGED <<pipeline, globals, store, now>>

\* update_ticket_feedback called directly.
UpdateTicketFeedback(ticket_id, human_label) ==
    /\ LET u == update_ticket_feedback(store, ticket_id, human_label) IN
           /\ store' = u.tickets
           /\ call' = Some([fn |-> "update_ticket_feedback",
                            ticket_id |-> ticket_id,
                            human_label |-> human_label,
                            ret |-> u.ret, committed |-> u.committed])
    /\ UNCHANGED <<pipeline, globals, now>>

\* POST /tickets/feedback: 404 when the repository returns None, else the
\* updated record.
SubmitTicketFeedback(ticket_id, human_label) ==
    /\ LET u == update_ticket_feedback(store, ticket_id, human_label) IN
           /\ store' = u.tickets
           /\ call' = Some([fn |-> "submit_ticket_feedback",
                            ticket_id |-> ticket_id,
                            human_label |-> human_label,
                            ret |-> u.ret, committed |-> u.committed,
                            status_code |-> IF u.ret = None THEN 404 ELSE 200,
                            detail |-> IF u.ret = None
                                       THEN "Ticket not found" ELSE "",
                            body |-> IF u.ret = None THEN None
                                     ELSE Some(TicketRecord(u.ret[1]))])
    /\ UNCHANGED <<pipeline, globals, now>>

NextStore ==
    \/ \E a \in CreateArgs : CreateTicket(a)
    \/ \E i \in TicketIds : GetTicket(i)
    \/ \E i \in TicketIds, l \in Labels : UpdateTicketFeedback(i, l)
    \/ \E i \in TicketIds, l \in Labels : SubmitTicketFeedback(i, l)

SpecStore == Init /\ [][NextStore]_vars


\* ------------------------------------------------- properties of the store
\* The latest call, when it was a call of fn.
Called(fn) == call # None /\ call[1].fn = fn

\* C11: create_ticket stores an empty tag list as the empty string, missing
\* tags as null and the tags a, b as "a,b"; the tags column read back with
\* get_ticket tells which of the three was given.
C11_TagsPersistence ==
    Called("create_ticket") =>
        LET given == call[1].args.tags
            back == get_ticket(store, call[1].ret[1].id)
        IN  /\ back # None
            /\ back[1].tags = Some(<<>>) <=> given = Some(<<>>)
            /\ back[1].tags = None <=> given = None
            /\ back[1].tags = Some(<<"a", ",", "b">>)
                   <=> given = Some(<<TagA, TagB>>)

C11_Witness ==
    /\ Called("create_ticket")
    /\ call[1].args.tags = None
    /\ Len(store) = 2
    /\ store[1].tags = Some(<<>>)
    /\ store[2].tags = None

FeedbackCalls == {"update_ticket_feedback", "submit_ticket_feedback"}

\* C12: a feedback call on an existing id sets that record's human_label to
\* the given label and changes nothing else: the record's other columns, the
\* other records and the number of records stay as they were.
C12_FeedbackFrame ==
    [][(/\ call' # None
        /\ call'[1].fn \in FeedbackCalls
        /\ get_ticket(store, call'[1].ticket_id) # None)
       => /\ Len(store') = Len(store)
          /\ \A i \in DOMAIN store :
                store'[i] =
                    IF store[i].id = call'[1].ticket_id
                    THEN [store[i] EXCEPT
                             !.human_label = Some(call'[1].human_label)]
                    ELSE store[i]
          /\ call'[1].ret = get_ticket(store', call'[1].ticket_id)
          /\ now' = now]_vars

C12_Witness ==
    /\ Called("update_ticket_feedback")
    /\ call[1].ticket_id = 2
    /\ Len(store) = 2
    /\ store[1].human_label = None
    /\ store[2].human_label = Some("correct")
    /\ store[2].tags = Some(<<"a", ",", "b">>)

\* C13: a record is created with a null human_label, the label changes only
\* in a feedback call on that record, and only while it is still null: once
\* set, no later feedback call changes it.
C13_LabelSetOnce ==
    [][/\ \A i \in DOMAIN store' \ DOMAIN store :
              store'[i].human_label = None
       /\ \A i \in DOMAIN store :
              store'[i].human_label # store[i].human_label =>
                  /\ call'[1].fn \in FeedbackCalls
                  /\ call'[1].ticket_id = store[i].id
                  /\ store[i].human_label = None]_vars

\* C14: a feedback call for an id that is not in the store returns None
\* without reaching db.commit(), the endpoint answers 404 "Ticket not found"
\* with no body, and the store is left as it was.
C14_FeedbackNotFound ==
    [][(/\ call' # None
        /\ call'[1].fn \in FeedbackCalls
        /\ get_ticket(store, call'[1].ticket_id) = None)
       => /\ store' = store
          /\ now' = now
          /\ call'[1].ret = None
          /\ ~call'[1].committed
          /\ call'[1].fn = "submit_ticket_feedback" =>
                /\ call'[1].status_code = 404
                /\ call'[1].detail = "Ticket not found"
                /\ call'[1].body = None]_vars

C14_Witness ==
    /\ Called("submit_ticket_feedback")
    /\ call[1].ticket_id = 2
    /\ call[1].status_code = 404
    /\ Len(store) = 1
    /\ store[1].id = 1

\* ---------------------------------------------- properties of the pipeline
\* C15: however the calls interleave, the records' ids grow strictly in
\* creation order (so no id is used twice or reused), every call that
\* returned names a record of its own, and no two calls got the same id.
C15_UniqueMonotonicIds ==
    /\ \A i, j \in DOMAIN store : i < j => store[i].id < store[j].id
    /\ \A p \in Returned :
          \E i \in DOMAIN store :
              /\ store[i].id = result[p][1].id
              /\ store[i].text = text[p][1]
    /\ \A p, q \in Returned : p # q => result[p][1].id # result[q][1].id

C15_Witness ==
    \E p, q \in Returned :
        /\ p < q
        /\ result[p][1].id = 2
        /\ result[q][1].id = 1

\* ======================================================== the HTTP boundary
\* The request bodies FastAPI validates before a handler runs.
Help == <<"H", "e", "l", "p">>

\* Texts sent in a request: empty, blank, padded, plain.
BodyTexts == {<<>>, <<" ", "\n">>, <<" ">> \o Help, Help}

\* TicketAgentRequest: `ticket: str`, no validator; without the field the
\* request is refused.
TicketBodies == {[ticket |-> Some(t)] : t \in BodyTexts} \cup {[ticket |-> None]}

\* RagQueryRequest: query, session_id, conversation_history (not sent here).
RagQueryBodies ==
    {[query |-> q, session_id |-> sid, conversation_history |-> None]
        : q \in BodyTexts, sid \in {<<"s", "1">>, <<>>}}

\* query_must_not_be_empty / session_id_must_not_be_empty:
\* `if not v or not v.strip(): raise ValueError(...)`, else `v.strip()`.
must_not_be_empty(v) ==
    IF v = <<>> \/ strip(v) = <<>> THEN Raise("ValidationError")
    ELSE Ok(strip(v))

\* Binding a call's keyword arguments to a signature: a keyword the
\* function does not declare raises TypeError.
Bind(params, kwargs) ==
    IF kwargs \subseteq params THEN "none" ELSE "TypeError"

\* RagService.answer(self, query, top_k=5)
answer_params == {"query", "top_k"}

\* The Generator's texts used behind the boundary.
BoundaryRaws ==
    { TextOf[GenObj(JStr(GoTo), Tags2, JStr(high))],
      TextOf[GenObj(JStr(INSUFFICIENT_CONTEXT), Tags1, JStr(low))] }

\* POST /tickets/agent: the body is validated, then process_ticket is called
\* with request.ticket.
PostTicketsAgent(p, body) ==
    IF body.ticket = None
    THEN /\ pc[p] = "idle"
         /\ pc' = [pc EXCEPT ![p] = "rejected"]
         /\ exc' = [exc EXCEPT ![p] = "ValidationError"]
         /\ UNCHANGED <<text, matches, response_text, gen_result, rag_result,
                        tags, ticket, result, create_calls, store, now, call, globals>>
    ELSE ProcessTicket(p, body.ticket[1])

\* POST /rag/query: the body is validated, then the handler calls
\* rag_service.answer(query=..., conversation_history=...).
PostRagQuery(p, body) ==
    /\ pc[p] = "idle"
    /\ LET q == must_not_be_empty(body.query)
           sid == must_not_be_empty(body.session_id)
       IN  IF q.exc # "none" \/ sid.exc # "none"
           THEN /\ pc' = [pc EXCEPT ![p] = "rejected"]
                /\ exc' = [exc EXCEPT ![p] = "ValidationError"]
                /\ text' = [text EXCEPT ![p] = Some(body.query)]
           ELSE LET bound == Bind(answer_params,
                                  {"query", "conversation_history"})
                IN  /\ text' = [text EXCEPT ![p] = Some(q.val[1])]
                    /\ IF bound = "none"
                       THEN /\ pc' = [pc EXCEPT ![p] = "query_similar"]
                            /\ exc' = exc
                       ELSE /\ pc' = [pc EXCEPT ![p] = "raised"]
                            /\ exc' = [exc EXCEPT ![p] = bound]
    /\ UNCHANGED <<matches, response_text, gen_result, rag_result, tags,
                   ticket, result, create_calls, store, now, call, globals>>

NextBoundary ==
    \/ \E p \in Procs, body \in TicketBodies : PostTicketsAgent(p, body)
    \/ \E p \in Procs, body \in RagQueryBodies : PostRagQuery(p, body)
    \/ \E p \in Procs, m \in Matches : QuerySimilarReturns(p, m)
    \/ \E p \in Procs : QuerySimilarRaises(p)
    \/ \E p \in Procs, raw \in BoundaryRaws : ChatCompletionReturns(p, raw)
    \/ \E p \in Procs : ChatCompletionRaises(p)
    \/ \E p \in Procs : Commit(p)

SpecBoundary == Init /\ [][NextBoundary]_vars

\* ---------------------------------------------- properties of the boundary
\* C16: a request whose ticket or query text is empty or blank is refused
\* before retrieval: the Retriever and the Generator are not called for it
\* and no record is created from it.
C16_BlankTextRejected ==
    /\ \A p \in Procs :
          (text[p] # None /\ strip(text[p][1]) = <<>>) =>
              /\ pc[p] = "rejected"
              /\ matches[p] = None
              /\ response_text[p] = None
              /\ create_calls[p] = 0
    /\ \A i \in DOMAIN store : strip(store[i].text) # <<>>

\* ------------------------------------------------- the order of the steps
\* C17: a call moves through retrieval, generation, validation and decision,
\* persistence in that order and through each once: generation starts only
\* when retrieval has returned, the row handed to create_ticket carries the
\* decision taken on the validated answer, the insert follows it, and what a
\* step produced is never produced again or taken from another call.
C17_StepsOnceInOrder ==
    [][\A p \in Procs :
         /\ pc'[p] # pc[p] =>
              \/ /\ pc[p] = "idle"
                 /\ pc'[p] = "query_similar"
                 /\ matches'[p] = None
              \/ /\ pc[p] = "query_similar"
                 /\ pc'[p] \in {"chat_completion", "raised"}
                 /\ pc'[p] = "chat_completion" =>
                       matches'[p] # None /\ response_text'[p] = None
              \/ /\ pc[p] = "chat_completion"
                 /\ pc'[p] \in {"commit", "raised"}
                 /\ store' = store
                 /\ pc'[p] = "commit" =>
                       /\ response_text'[p] # None
                       /\ gen_result'[p] =
                              Some(generate_rag_response(
                                       response_text'[p][1]).val[1])
                       /\ rag_result'[p] # None
                       /\ ticket'[p] # None
                       /\ ticket'[p][1].action =
                              Decide(rag_result'[p][1].answer.s).action
                       /\ create_calls'[p] = 1
              \/ /\ pc[p] = "commit"
                 /\ pc'[p] = "done"
                 /\ create_calls[p] = 1
                 /\ Len(store') = Len(store) + 1
                 /\ store'[Len(store')].action = ticket[p][1].action
                 /\ result'[p] # None
         /\ matches[p] # None => matches'[p] = matches[p]
         /\ response_text[p] # None => response_text'[p] = response_text[p]
         /\ gen_result[p] # None => gen_result'[p] = gen_result[p]
         /\ ticket[p] # None => ticket'[p] = ticket[p]
         /\ result[p] # None => result'[p] = result[p]
         /\ create_calls'[p] <= 1]_vars

C17_Witness ==
    /\ \A p \in Procs :
          /\ pc[p] = "done"
          /\ matches[p] # None
          /\ response_text[p] # None
          /\ ticket[p][1].action = "reply"
    /\ \A p, q \in Procs :
          text[p] = text[q] /\ response_text[p] = response_text[q]
    /\ Len(store) = NumProcs

\* ============================================================== the prompt
\* The fixed text of RagPrompts.build_user_prompt.
P_Context ==
    <<"C", "o", "n", "t", "e", "x", "t", " ", "f", "r", "o", "m", " ",
      "k", "n", "o", "w", "l", "e", "d", "g", "e", " ", "b", "a", "s",
      "e", ":", "\n">>

P_Previous ==
    <<"\n", "\n", "P", "r", "e", "v", "i", "o", "u", "s", " ", "c",
      "o", "n", "v", "e", "r", "s", "a", "t", "i", "o", "n", " ", "c",
      "o", "n", "t", "e", "x", "t", ":", "\n">>

P_Question ==
    <<"\n", "\n", "U", "s", "e", "r", " ", "Q", "u", "e", "s", "t",
      "i", "o", "n", ":", " ">>

P_Remember ==
    <<"\n", "\n", "R", "e", "m", "e", "m", "b", "e", "r", ":", " ",
      "R", "e", "s", "p", "o", "n", "d", " ", "O", "N", "L", "Y", " ",
      "w", "i", "t", "h", " ", "v", "a", "l", "i", "d", " ", "J", "S",
      "O", "N", " ", "c", "o", "n", "t", "a", "i", "n", "i", "n", "g",
      " ", "a", "n", "s", "w", "e", "r", ",", " ", "t", "a", "g", "s",
      ",", " ", "a", "n", "d", " ", "c", "o", "n", "f", "i", "d", "e",
      "n", "c", "e", ".">>

\* A variant that opens the history section whenever a summary is passed,
\* empty or not.
build_user_prompt_AlwaysSection(context, query, conversation_summary) ==
    P_Context \o context
    \o (IF conversation_summary # None
        THEN P_Previous \o conversation_summary[1] ELSE <<>>)
    \o P_Question \o query \o P_Remember

\* build_user_prompt(context, query, conversation_summary=""): the summary
\* is None when the argument is left out.
build_user_prompt(context, query, conversation_summary) ==
    LET summary == IF conversation_summary = None
                   THEN <<>> ELSE conversation_summary[1]
        conversation_context ==
            IF summary # <<>> THEN P_Previous \o summary ELSE <<>>
    IN  P_Context \o context \o conversation_context
        \o P_Question \o query \o P_Remember

\* generate_rag_response(self, query, context_chunks, model=None)
generate_rag_response_params == {"query", "context_chunks", "model"}

\* The user message generate_rag_response sends:
\* `build_user_prompt("\n\n".join(context_chunks), query)`.
user_message(query, context_chunks) ==
    build_user_prompt(join(<<"\n", "\n">>, context_chunks), query, None)

\* ------------------------------------------------- conversation histories
MaxTurns == 10

\* The decimal numeral of a number below 100.
Numeral(k) ==
    IF k < 10 THEN <<Digits[k + 1]>>
    ELSE <<Digits[(k \div 10) + 1], Digits[(k % 10) + 1]>>

\* The content of turn k, counted from 0.
Question(k) == <<"Q">> \o Numeral(k) \o <<"?">>

\* A turn content one character longer than 150.
LongContent == [i \in 1..151 |-> "A"]

\* A history of n turns, user and assistant in turn; with `long` the last
\* turn carries the long content.
History(n, long) ==
    [i \in 1..n |->
        [role |-> IF i % 2 = 1 THEN "user" ELSE "assistant",
         content |-> IF long /\ i = n THEN LongContent ELSE Question(i - 1)]]

Histories == {History(n, long) : n \in 0..MaxTurns, long \in BOOLEAN}

\* A turn as callers write it into a conversation summary.
TurnLine(turn) ==
    (IF turn.role = "user"
     THEN <<"U", "s", "e", "r">>
     ELSE <<"A", "s", "s", "i", "s", "t", "a", "n", "t">>)
    \o <<":", " ">> \o turn.content

\* A whole history written out as a conversation summary.
Flatten(h) == join(<<"\n">>, [i \in 1..Len(h) |-> TurnLine(h[i])])

\* The conversation_history keyword of a call: left out, None, or a list.
NotPassed == [passed |-> FALSE]
Passed(v) == [passed |-> TRUE, value |-> v]
HistoryArgs == {NotPassed, Passed(None)} \cup {Passed(Some(h)) : h \in Histories}

\* The conversation_summary argument of build_user_prompt: left out, empty,
\* or a history written out.
SummaryArgs == {None, Some(<<>>)} \cup {Some(Flatten(h)) : h \in Histories \ {<<>>}}

Doc1 == <<"D", "o", "c", "u", "m", "e", "n", "t", " ", "1", ":", "\n", "a">>
Doc2 == <<"D", "o", "c", "u", "m", "e", "n", "t", " ", "2", ":", "\n", "b">>
ChunkLists == {<<>>, <<Doc1>>, <<Doc1, Doc2>>}

Queries == {Help, <<"W", "h", "y", "?">>}

\* client.generate_rag_response(query=, context_chunks=[, conversation_history=])
\* as RagService.answer and the client's callers call it: the keywords are
\* bound, the user message is built and sent, the completion is parsed.
GenerateRagResponse(query, context_chunks, history, raw) ==
    LET kwargs == {"query", "context_chunks"}
                  \cup (IF history.passed THEN {"conversation_history"} ELSE {})
        bound == Bind(generate_rag_response_params, kwargs)
        gen == generate_rag_response(raw)
    IN  /\ call' = Some([fn |-> "generate_rag_response",
                         query |-> query,
                         context_chunks |-> context_chunks,
                         conversation_history |-> history,
                         messages |-> IF bound = "none"
                                      THEN Some(user_message(query, context_chunks))
                                      ELSE None,
                         exc |-> IF bound = "none" THEN gen.exc ELSE bound,
                         ret |-> IF bound = "none" THEN gen.val ELSE None])
        /\ UNCHANGED <<pipeline, globals, store, now>>

\* RagPrompts.build_user_prompt called directly.
BuildUserPrompt(context, query, conversation_summary) ==
    /\ call' = Some([fn |-> "build_user_prompt",
                     context |-> context, query |-> query,
                     conversation_summary |-> conversation_summary,
                     ret |-> build_user_prompt(context, query,
                                               conversation_summary)])
    /\ UNCHANGED <<pipeline, globals, store, now>>

NextPrompt ==
    \/ \E q \in Queries, c \in ChunkLists, h \in HistoryArgs, raw \in BoundaryRaws :
          GenerateRagResponse(q, c, h, raw)
    \/ \E c \in ChunkLists, q \in Queries, cs \in SummaryArgs :
          BuildUserPrompt(join(<<"\n", "\n">>, c), q, cs)

SpecPrompt == Init /\ [][NextPrompt]_vars

\* ------------------------------------------------ properties of the prompt
\* The history the latest call was given, with the prompt it built: a list
\* passed to generate_rag_response as conversation_history, or a history
\* written out and passed to build_user_prompt as conversation_summary.
Supplied ==
    IF Called("generate_rag_response")
    THEN IF call[1].conversation_history.passed
            /\ call[1].conversation_history.value # None
         THEN {[h |-> call[1].conversation_history.value[1],
                prompt |-> call[1].messages]}
         ELSE {}
    ELSE IF Called("build_user_prompt")
    THEN {[h |-> g, prompt |-> Some(call[1].ret)] :
             g \in {g \in Histories :
                       call[1].conversation_summary = Some(Flatten(g))}}
    ELSE {}

\* The first 150 characters of a turn's content.
Capped(content) ==
    SubSeq(content, 1, IF Len(content) < 150 THEN Len(content) ELSE 150)

\* Where needle first starts in s.
FirstAt(needle, s) ==
    CHOOSE i \in 1..Len(s) :
        /\ SubSeq(s, i, i + Len(needle) - 1) = needle
        /\ \A j \in 1..(i - 1) : SubSeq(s, j, j + Len(needle) - 1) # needle

\* C18: whatever the length of the history, a prompt is built and holds the
\* most recent 6 turns, in their order, and none of the older turns.
C18_RecentSixTurns ==
    \A s \in Supplied :
        /\ s.prompt # None
        /\ \A i \in 1..Len(s.h) :
              contains(Capped(s.h[i].content), s.prompt[1])
                  <=> i > Len(s.h) - 6
        /\ \A i, j \in 1..Len(s.h) :
              (Len(s.h) - 6 < i /\ i < j) =>
                  FirstAt(Capped(s.h[i].content), s.prompt[1])
                      < FirstAt(Capped(s.h[j].content), s.prompt[1])

\* C19: each of the turns in the prompt shows at most 150 characters of its
\* content: longer content is cut to 150 characters followed by "...",
\* shorter content appears whole.
C19_TurnContentCapped ==
    \A s \in Supplied :
        /\ s.prompt # None
        /\ \A i \in 1..Len(s.h) :
              i > Len(s.h) - 6 =>
                  IF Len(s.h[i].content) <= 150
                  THEN contains(s.h[i].content, s.prompt[1])
                  ELSE /\ contains(Capped(s.h[i].content) \o <<".", ".", ".">>,
                                   s.prompt[1])
                       /\ ~contains(SubSeq(s.h[i].content, 1, 151),
                                    s.prompt[1])

Degraded ==
    {p \in Decided : gen_result[p] = Some(Fallback(response_text[p][1]))}

\* C21: a call whose generation was degraded is decided as escalate, with
\* one of the two reasons that explain the gap, and when it returns it
\* names a record of the store.
C21_DegradedEscalates ==
    \A p \in Degraded :
        /\ ticket[p][1].action = "escalate"
        /\ ticket[p][1].reason \in {Some(ReasonInsufficient), Some(ReasonNoReply)}
        /\ pc[p] = "done" =>
              /\ result[p][1].action = "escalate"
              /\ \E i \in DOMAIN store : store[i].id = result[p][1].id


\* ========================================================= the read paths
\* Tags with a comma inside and an empty tag, next to TagA and TagB.
TagAB == JStr(<<"a", ",", "b">>)
TagEmpty == JStr(<<>>)

\* The tag lists of the create_ticket calls whose records are read back.
ReadTagArgs ==
    {Some(<<>>), Some(<<TagA, TagB>>), Some(<<TagB, TagA>>),
     Some(<<TagAB>>), Some(<<TagEmpty>>)}

ReadCreateArgs ==
    {[text |-> "How do I reset my password?", action |-> "reply",
      reply |-> Some(GoTo), tags |-> tg, reason |-> Some(ReasonReply)]
        : tg \in ReadTagArgs}

\* The skip and limit values of a request: any integer is accepted.
PageArgs == (-1)..MaxTickets

\* A variant that takes skip as the position of the last row of the page.
list_tickets_OffByOne(tickets, skip, limit) ==
    LET start == IF skip < 1 THEN 1 ELSE skip
        rest == SubSeq(tickets, start, Len(tickets))
    IN  IF limit < 0 \/ limit > Len(rest) THEN rest
        ELSE SubSeq(rest, 1, limit)

\* `db.query(Ticket).offset(skip).limit(limit).all()` on SQLite: the rows in
\* rowid order; a negative OFFSET counts as 0, a negative LIMIT as no limit.
list_tickets(tickets, skip, limit) ==
    LET offset == IF skip < 0 THEN 0 ELSE skip
        rest == SubSeq(tickets, offset + 1, Len(tickets))
    IN  IF limit < 0 \/ limit > Len(rest) THEN rest
        ELSE SubSeq(rest, 1, limit)

\* list_tickets called directly.
ListTickets(skip, limit) ==
    /\ call' = Some([fn |-> "list_tickets", skip |-> skip, limit |-> limit,
                     ret |-> list_tickets(store, skip, limit),
                     committed |-> FALSE])
    /\ UNCHANGED <<pipeline, globals, store, now>>

\* GET /tickets: the page's rows, each turned into a TicketRecord.
GetTickets(skip, limit) ==
    /\ LET rows == list_tickets(store, skip, limit) IN
           call' = Some([fn |-> "get_tickets", skip |-> skip, limit |-> limit,
                         status_code |-> 200,
                         body |-> [i \in 1..Len(rows) |-> TicketRecord(rows[i])],
                         committed |-> FALSE])
    /\ UNCHANGED <<pipeline, globals, store, now>>

NextRead ==
    \/ \E a \in ReadCreateArgs : CreateTicket(a)
    \/ \E i \in 1..MaxTickets : SubmitTicketFeedback(i, "correct")
    \/ \E skip \in PageArgs, limit \in PageArgs : ListTickets(skip, limit)
    \/ \E skip \in PageArgs, limit \in PageArgs : GetTickets(skip, limit)

SpecRead == Init /\ [][NextRead]_vars


\* ------------------------------------------- properties of the read paths
\* The records at positions skip .. skip+limit-1 of the table, counted
\* from 0.
PageOf(tickets, skip, limit) ==
    SubSeq(tickets,
           IF skip < 0 THEN 1 ELSE skip + 1,
           IF skip + limit > Len(tickets) THEN Len(tickets) ELSE skip + limit)

\* The pages of one size, one after the other, from position skip on.
RECURSIVE PagesFrom(_, _, _)
PagesFrom(tickets, skip, limit) ==
    IF skip >= Len(tickets) THEN <<>>
    ELSE list_tickets(tickets, skip, limit)
         \o PagesFrom(tickets, skip + limit, limit)

C23_ResultHonoursContract ==
    \A p \in Procs :
        gen_result[p] # None =>
            /\ IsGenerationResult(gen_result[p][1])
            /\ response_text[p][1] \notin ConformingTexts =>
                  gen_result[p] = Some(Fallback(response_text[p][1]))


\* ================================================ update_ticket_agent_result
\* The (action, reply, tags, reason) arguments of the calls made in the
\* model; None for tags or reason is the parameter's default.
AgentResultArgs ==
    { [action |-> "escalate", reply |-> None, tags |-> None, reason |-> None],
      [action |-> "escalate", reply |-> None, tags |-> None,
       reason |-> Some(ReasonNoReply)],
      [action |-> "reply", reply |-> Some(Sorry), tags |-> Some(<<TagB>>),
       reason |-> None],
      [action |-> "reply", reply |-> Some(Sorry), tags |-> Some(<<TagB>>),
       reason |-> Some(ReasonReply)] }

\* update_ticket_agent_result: the table afterwards, the value returned and
\* whether db.commit() was reached.
update_ticket_agent_result(tickets, ticket_id, a) ==
    IF get_ticket(tickets, ticket_id) = None
    THEN [tickets |-> tickets, ret |-> None, committed |-> FALSE]
    ELSE LET i == CHOOSE j \in DOMAIN tickets : tickets[j].id = ticket_id
             t2 == [tickets[i] EXCEPT
                       !.action = a.action,
                       !.reply = a.reply,
                       !.reason = a.reason,
                       !.tags = IF a.tags # None
                                THEN Some(tags_str(a.tags[1])) ELSE @]
         IN  [tickets |-> [tickets EXCEPT ![i] = t2], ret |-> Some(t2),
              committed |-> TRUE]

\* update_ticket_agent_result called directly.
UpdateTicketAgentResult(ticket_id, a) ==
    /\ LET u == update_ticket_agent_result(store, ticket_id, a) IN
           /\ store' = u.tickets
           /\ call' = Some([fn |-> "update_ticket_agent_result",
                            ticket_id |-> ticket_id, args |-> a,
                            ret |-> u.ret, committed |-> u.committed])
    /\ UNCHANGED <<pipeline, globals, now>>

NextUpdate ==
    \/ \E a \in CreateArgs : CreateTicket(a)
    \/ \E i \in TicketIds : UpdateTicketFeedback(i, "correct")
    \/ \E i \in TicketIds, a \in AgentResultArgs : UpdateTicketAgentResult(i, a)

SpecUpdate == Init /\ [][NextUpdate]_vars

\* C24: update_ticket_agent_result on an existing id sets action and reply,
\* sets tags and reason when they are given and keeps their previous values
\* when they are not, and leaves id, text, created_at and human_label, and
\* every other record, as they were.
C24_AgentResultFrame ==
    [][(/\ call' # None
        /\ call'[1].fn = "update_ticket_agent_result"
        /\ get_ticket(store, call'[1].ticket_id) # None)
       => /\ Len(store') = Len(store)
          /\ \A i \in DOMAIN store :
                IF store[i].id # call'[1].ticket_id
                THEN store'[i] = store[i]
                ELSE LET a == call'[1].args IN
                     /\ store'[i].id = store[i].id
                     /\ store'[i].text = store[i].text
                     /\ store'[i].created_at = store[i].created_at
                     /\ store'[i].human_label = store[i].human_label
                     /\ store'[i].action = a.action
                     /\ store'[i].reply = a.reply
                     /\ store'[i].tags =
                            IF a.tags = None THEN store[i].tags
                            ELSE Some(tags_str(a.tags[1]))
                     /\ store'[i].reason =
                            IF a.reason = None THEN store[i].reason
                            ELSE a.reason]_vars


\* ---------------------------------------------------------------------------
\* The rate limiter: dependencies.check_rate_limit over SESSION_USAGE.
\* ---------------------------------------------------------------------------

\* Settings.MAX_MESSAGES_PER_SESSION and Settings.SESSION_WINDOW_SECONDS,
\* scaled down from 20 messages and 86400 seconds.
MAX_MESSAGES_PER_SESSION == 2

SESSION_WINDOW_SECONDS == 2

\* The last value time.time() takes, and the number of admitted requests
\* that are followed.
MaxClock == 4

MaxAdmits == 3

Sessions == {<<"s", "1">>, <<"s", "2">>}

\* The X-Owner-Key header: absent, the configured key, another key.
OwnerKeys == {None, Some("k")}

\* The Settings objects an environment can configure.
SettingsValues ==
    [APP_MODE : {"prod", "dev"}, OWNER_KEY : {"", "k"},
     RATE_LIMIT_ENABLED : BOOLEAN]

\* The checks before the session's usage is looked at: dev mode, the owner
\* key, the switch.
Bypassed(st, x_owner_key) ==
    \/ st.APP_MODE = "dev"
    \/ st.OWNER_KEY # "" /\ x_owner_key = Some(st.OWNER_KEY)
    \/ ~st.RATE_LIMIT_ENABLED

\* HTTPException(status_code=429, detail={...}).
TooManyRequests(u, t) ==
    [status_code |-> 429,
     detail |-> [error |-> "Rate limit exceeded",
                 limit |-> MAX_MESSAGES_PER_SESSION,
                 window_seconds |-> SESSION_WINDOW_SECONDS,
                 time_until_reset_seconds |->
                     (u.start_time + SESSION_WINDOW_SECONDS) - t]]

Returned200 == [status_code |-> 200, detail |-> None]

\* dict assignment: d[k] = v.
SetItem(d, k, v) ==
    [x \in DOMAIN d \cup {k} |-> IF x = k THEN v ELSE d[x]]

\* A variant that never looks at the count.
check_rate_limit_Unlimited(usage_map, hp, st, session_id, x_owner_key, t) ==
    IF Bypassed(st, x_owner_key)
    THEN [SESSION_USAGE |-> usage_map, heap |-> hp, outcome |-> Returned200]
    ELSE IF session_id \notin DOMAIN usage_map
    THEN [SESSION_USAGE |-> SetItem(usage_map, session_id, Len(hp) + 1),
          heap |-> Append(hp, [count |-> 1, start_time |-> t]),
          outcome |-> Returned200]
    ELSE LET i == usage_map[session_id]
             u == hp[i]
         IN  IF t - u.start_time > SESSION_WINDOW_SECONDS
             THEN [SESSION_USAGE |-> usage_map,
                   heap |-> [hp EXCEPT ![i] = [count |-> 1, start_time |-> t]],
                   outcome |-> Returned200]
             ELSE [SESSION_USAGE |-> usage_map,
                   heap |-> [hp EXCEPT ![i].count = u.count + 1],
                   outcome |-> Returned200]

\* A variant whose window never expires.
check_rate_limit_NoReset(usage_map, hp, st, session_id, x_owner_key, t) ==
    IF Bypassed(st, x_owner_key)
    THEN [SESSION_USAGE |-> usage_map, heap |-> hp, outcome |-> Returned200]
    ELSE IF session_id \notin DOMAIN usage_map
    THEN [SESSION_USAGE |-> SetItem(usage_map, session_id, Len(hp) + 1),
          heap |-> Append(hp, [count |-> 1, start_time |-> t]),
          outcome |-> Returned200]
    ELSE LET i == usage_map[session_id]
             u == hp[i]
         IN  IF u.count >= MAX_MESSAGES_PER_SESSION
             THEN [SESSION_USAGE |-> usage_map, heap |-> hp,
                   outcome |-> TooManyRequests(u, t)]
             ELSE [SESSION_USAGE |-> usage_map,
                   heap |-> [hp EXCEPT ![i].count = u.count + 1],
                   outcome |-> Returned200]

\* check_rate_limit run from its first line to its last with no other thread
\* in between: the new SESSION_USAGE, the usage dicts, and whether it returned
\* or raised.
check_rate_limit(usage_map, hp, st, session_id, x_owner_key, t) ==
    IF Bypassed(st, x_owner_key)
    THEN [SESSION_USAGE |-> usage_map, heap |-> hp, outcome |-> Returned200]
    ELSE IF session_id \notin DOMAIN usage_map
    THEN [SESSION_USAGE |-> SetItem(usage_map, session_id, Len(hp) + 1),
          heap |-> Append(hp, [count |-> 1, start_time |-> t]),
          outcome |-> Returned200]
    ELSE LET i == usage_map[session_id]
             u == hp[i]
         IN  IF t - u.start_time > SESSION_WINDOW_SECONDS
             THEN [SESSION_USAGE |-> usage_map,
                   heap |-> [hp EXCEPT ![i] = [count |-> 1, start_time |-> t]],
                   outcome |-> Returned200]
             ELSE IF u.count >= MAX_MESSAGES_PER_SESSION
             THEN [SESSION_USAGE |-> usage_map, heap |-> hp,
                   outcome |-> TooManyRequests(u, t)]
             ELSE [SESSION_USAGE |-> usage_map,
                   heap |-> [hp EXCEPT ![i].count = u.count + 1],
                   outcome |-> Returned200]

\* The times at which a session id was admitted so far.
AdmitsIn(log, session_id) ==
    LET mine == SelectSeq(log, LAMBDA a : a.session_id = session_id)
    IN  [i \in 1..Len(mine) |-> mine[i].t]

AdmitsOf(session_id) == AdmitsIn(admits, session_id)

Admit(session_id, x_owner_key, t) ==
    Append(admits, [session_id |-> session_id, x_owner_key |-> x_owner_key,
                    t |-> t])

services == <<_rag_service, _ticket_agent_service, constructed>>

\* One request's call of check_rate_limit, no other request in between.
CheckRateLimit(session_id, x_owner_key) ==
    LET r == check_rate_limit(SESSION_USAGE, heap, settings, session_id,
                              x_owner_key, clock)
    IN  /\ Len(admits) < MaxAdmits
        /\ SESSION_USAGE' = r.SESSION_USAGE
        /\ heap' = r.heap
        /\ admits' = IF r.outcome.status_code = 200
                     THEN Admit(session_id, x_owner_key, clock) ELSE admits
        /\ call' = Some([fn |-> "check_rate_limit", session_id |-> session_id,
                         x_owner_key |-> x_owner_key, now |-> clock,
                         status_code |-> r.outcome.status_code,
                         detail |-> r.outcome.detail])
        /\ UNCHANGED <<pipeline, store, now, settings, clock, frame, services>>

\* time.time() moves on.
Tick ==
    /\ clock < MaxClock
    /\ clock' = clock + 1
    /\ UNCHANGED <<pipeline, store, now, call, settings, SESSION_USAGE, heap,
                   admits, frame, services>>

\* The process starts with any configuration.
InitLimit ==
    /\ pc = [p \in Procs |-> "idle"]
    /\ text = [p \in Procs |-> None]
    /\ matches = [p \in Procs |-> None]
    /\ response_text = [p \in Procs |-> None]
    /\ gen_result = [p \in Procs |-> None]
    /\ rag_result = [p \in Procs |-> None]
    /\ tags = [p \in Procs |-> None]
    /\ ticket = [p \in Procs |-> None]
    /\ result = [p \in Procs |-> None]
    /\ exc = [p \in Procs |-> "none"]
    /\ create_calls = [p \in Procs |-> 0]
    /\ store = <<>>
    /\ now = 0
    /\ call = None
    /\ settings \in SettingsValues
    /\ SESSION_USAGE = <<>>
    /\ heap = <<>>
    /\ clock = 0
    /\ admits = <<>>
    /\ frame = [p \in Procs |-> None]
    /\ _rag_service = None
    /\ _ticket_agent_service = None
    /\ constructed = [RagService |-> 0, TicketAgentService |-> 0]

NextLimit ==
    \/ \E session_id \in Sessions, x_owner_key \in OwnerKeys :
           CheckRateLimit(session_id, x_owner_key)
    \/ Tick

SpecLimit == InitLimit /\ [][NextLimit]_vars


\* ---------------------------------------------------------------------------
\* Properties of the rate limiter.
\* ---------------------------------------------------------------------------

\* Prod mode with the limiter switched on.
Limited == settings.APP_MODE = "prod" /\ settings.RATE_LIMIT_ENABLED

\* No admitted request presented an owner key.
NoOwnerKey == \A i \in 1..Len(admits) : admits[i].x_owner_key = None

\* The latest window of a list of admission times: a window starts at the
\* first admission, and at the first admission more than
\* SESSION_WINDOW_SECONDS after the start of the window before.
RECURSIVE LastWindow(_)
LastWindow(ts) ==
    IF ts = <<>> THEN [start |-> 0, n |-> 0]
    ELSE LET w == LastWindow(SubSeq(ts, 1, Len(ts) - 1))
             t == ts[Len(ts)]
         IN  IF w.n = 0 \/ t - w.start > SESSION_WINDOW_SECONDS
             THEN [start |-> t, n |-> 1]
             ELSE [start |-> w.start, n |-> w.n + 1]

\* The step is a call of check_rate_limit without an owner key.
LimiterCall ==
    /\ call' # None
    /\ call'[1].fn = "check_rate_limit"
    /\ call'[1].x_owner_key = None
    /\ call' # call \/ admits' # admits

NextRagLimit ==
    \/ \E p \in Procs, body \in RagQueryBodies : PostRagQuery(p, body)
    \/ \E session_id \in Sessions, x_owner_key \in OwnerKeys :
           CheckRateLimit(session_id, x_owner_key)
    \/ Tick

SpecRagLimit == Init /\ [][NextRagLimit]_vars

\* C26: every POST /rag/query goes through check_rate_limit before the RAG
\* service is invoked: a request reaches rag_service.answer only in a step in
\* which check_rate_limit admitted it, so a request over its session's limit
\* never gets there.
C26_QueryRateLimited ==
    [][\A p \in Procs :
           (pc[p] = "idle" /\ pc'[p] \notin {"idle", "rejected"}) =>
               /\ Len(admits') = Len(admits) + 1
               /\ SESSION_USAGE' # <<>>]_vars


\* ---------------------------------------------------------------------------
\* check_rate_limit on several threads.  FastAPI runs a dependency declared
\* with def on a thread pool, and the function takes no lock: between any two
\* of its reads and writes of SESSION_USAGE another thread may run.
\* ---------------------------------------------------------------------------

Frame(p) == frame[p][1]

At(p, at) == frame[p] # None /\ Frame(p).at = at

Goto(p, at) == [frame EXCEPT ![p] = Some([Frame(p) EXCEPT !.at = at])]

\* The function returns or raises: its frame is gone and the outcome is the
\* latest call.
Leave(p, outcome) ==
    /\ frame' = [frame EXCEPT ![p] = None]
    /\ admits' = IF outcome.status_code = 200
                 THEN Admit(Frame(p).session_id, Frame(p).x_owner_key,
                            Frame(p).now)
                 ELSE admits
    /\ call' = Some([fn |-> "check_rate_limit",
                     session_id |-> Frame(p).session_id,
                     x_owner_key |-> Frame(p).x_owner_key,
                     now |-> Frame(p).now,
                     status_code |-> outcome.status_code,
                     detail |-> outcome.detail])

\* Lines 35-51: the three bypass checks, then now = time.time().
LimiterEnter(p, session_id, x_owner_key) ==
    /\ frame[p] = None
    /\ Len(admits) + Cardinality({q \in Procs : frame[q] # None}) < MaxAdmits
    /\ IF Bypassed(settings, x_owner_key)
       THEN /\ admits' = Admit(session_id, x_owner_key, clock)
            /\ call' = Some([fn |-> "check_rate_limit",
                             session_id |-> session_id,
                             x_owner_key |-> x_owner_key, now |-> clock,
                             status_code |-> 200, detail |-> None])
            /\ frame' = frame
       ELSE /\ frame' = [frame EXCEPT ![p] =
                            Some([fn |-> "check_rate_limit", at |-> "get",
                                  session_id |-> session_id,
                                  x_owner_key |-> x_owner_key, now |-> clock,
                                  usage |-> 0, count |-> 0])]
            /\ UNCHANGED <<admits, call>>
    /\ UNCHANGED <<pipeline, store, now, settings, SESSION_USAGE, heap, clock,
                   services>>

\* Line 52: usage = SESSION_USAGE.get(session_id), a reference to the dict
\* (0 stands for None).
LimiterGet(p) ==
    /\ At(p, "get")
    /\ LET f == Frame(p)
           usage == IF f.session_id \in DOMAIN SESSION_USAGE
                    THEN SESSION_USAGE[f.session_id] ELSE 0
       IN  frame' = [frame EXCEPT ![p] =
                        Some([f EXCEPT !.usage = usage,
                                       !.at = IF usage = 0 THEN "create"
                                              ELSE "window"])]
    /\ UNCHANGED <<pipeline, store, now, call, settings, SESSION_USAGE, heap,
                   clock, admits, services>>

\* Lines 54-57: a new dict replaces whatever the session id maps to by now.
LimiterCreate(p) ==
    /\ At(p, "create")
    /\ heap' = Append(heap, [count |-> 1, start_time |-> Frame(p).now])
    /\ SESSION_USAGE' = SetItem(SESSION_USAGE, Frame(p).session_id,
                                Len(heap) + 1)
    /\ Leave(p, Returned200)
    /\ UNCHANGED <<pipeline, store, now, settings, clock, services>>

\* Line 62: the expiry test reads usage["start_time"].
LimiterWindow(p) ==
    /\ At(p, "window")
    /\ frame' = Goto(p, IF Frame(p).now - heap[Frame(p).usage].start_time
                               > SESSION_WINDOW_SECONDS
                        THEN "reset_count" ELSE "limit")
    /\ UNCHANGED <<pipeline, store, now, call, settings, SESSION_USAGE, heap,
                   clock, admits, services>>

\* Line 64: usage["count"] = 1.
LimiterResetCount(p) ==
    /\ At(p, "reset_count")
    /\ heap' = [heap EXCEPT ![Frame(p).usage].count = 1]
    /\ frame' = Goto(p, "reset_start")
    /\ UNCHANGED <<pipeline, store, now, call, settings, SESSION_USAGE, clock,
                   admits, services>>

\* Lines 65-66: usage["start_time"] = now; return.
LimiterResetStart(p) ==
    /\ At(p, "reset_start")
    /\ heap' = [heap EXCEPT ![Frame(p).usage].start_time = Frame(p).now]
    /\ Leave(p, Returned200)
    /\ UNCHANGED <<pipeline, store, now, settings, SESSION_USAGE, clock,
                   services>>

\* Lines 69-85: the limit test reads usage["count"] and raises.
LimiterLimit(p) ==
    /\ At(p, "limit")
    /\ IF heap[Frame(p).usage].count >= MAX_MESSAGES_PER_SESSION
       THEN Leave(p, TooManyRequests(heap[Frame(p).usage], Frame(p).now))
       ELSE /\ frame' = Goto(p, "load")
            /\ UNCHANGED <<admits, call>>
    /\ UNCHANGED <<pipeline, store, now, settings, SESSION_USAGE, heap, clock,
                   services>>

\* Line 88, first half: usage["count"] is read.
LimiterLoad(p) ==
    /\ At(p, "load")
    /\ frame' = [frame EXCEPT ![p] =
                    Some([Frame(p) EXCEPT !.count = heap[Frame(p).usage].count,
                                          !.at = "store"])]
    /\ UNCHANGED <<pipeline, store, now, call, settings, SESSION_USAGE, heap,
                   clock, admits, services>>

\* Line 88, second half: the value read plus one is stored; return.
LimiterStore(p) ==
    /\ At(p, "store")
    /\ heap' = [heap EXCEPT ![Frame(p).usage].count = Frame(p).count + 1]
    /\ Leave(p, Returned200)
    /\ UNCHANGED <<pipeline, store, now, settings, SESSION_USAGE, clock,
                   services>>

NextThreads ==
    \/ \E p \in Procs, session_id \in Sessions, x_owner_key \in OwnerKeys :
           LimiterEnter(p, session_id, x_owner_key)
    \/ \E p \in Procs : LimiterGet(p)
    \/ \E p \in Procs : LimiterCreate(p)
    \/ \E p \in Procs : LimiterWindow(p)
    \/ \E p \in Procs : LimiterResetCount(p)
    \/ \E p \in Procs : LimiterResetStart(p)
    \/ \E p \in Procs : LimiterLimit(p)
    \/ \E p \in Procs : LimiterLoad(p)
    \/ \E p \in Procs : LimiterStore(p)
    \/ Tick

SpecThreads == Init /\ [][NextThreads]_vars

\* No call of check_rate_limit for the session id is under way.
Quiet(session_id) ==
    \A p \in Procs : frame[p] # None => Frame(p).session_id # session_id

\* C27: with concurrent calls of check_rate_limit for one session id, whose
\* reads, checks and increments interleave, no window ever holds more than
\* MAX_MESSAGES_PER_SESSION admissions of the session id, and no increment is
\* lost: once the calls are over the count equals the admissions of the
\* window.
C27_ConcurrentLimit ==
    (Limited /\ NoOwnerKey) =>
        \A session_id \in Sessions :
            /\ LastWindow(AdmitsOf(session_id)).n <= MAX_MESSAGES_PER_SESSION
            /\ (Quiet(session_id) /\ session_id \in DOMAIN SESSION_USAGE) =>
                   heap[SESSION_USAGE[session_id]].count
                       = LastWindow(AdmitsOf(session_id)).n


\* C28: once more than SESSION_WINDOW_SECONDS have passed since a session's
\* window started, its next request is admitted, whether or not the session
\* was being rejected, and starts a new window with count 1; and a request is
\* answered 429 only within SESSION_WINDOW_SECONDS of the window start, so
\* the passing of time alone ends every blockage.
C28_WindowReset ==
    [][(Limited /\ LimiterCall
            /\ call'[1].session_id \in DOMAIN SESSION_USAGE) =>
           LET session_id == call'[1].session_id
               usage == heap[SESSION_USAGE[session_id]]
               expired == clock - usage.start_time > SESSION_WINDOW_SECONDS
           IN  /\ expired =>
                      /\ call'[1].status_code = 200
                      /\ SESSION_USAGE' = SESSION_USAGE
                      /\ heap' = [heap EXCEPT ![SESSION_USAGE[session_id]] =
                                     [count |-> 1, start_time |-> clock]]
               /\ call'[1].status_code = 429 =>
                      /\ ~expired
                      /\ call'[1].detail.time_until_reset_seconds >= 0]_vars

\* A session id that filled a window was admitted again after the window
\* expired, and its record was reset.
C28_Witness ==
    /\ Limited
    /\ Called("check_rate_limit")
    /\ call[1].x_owner_key = None
    /\ call[1].status_code = 200
    /\ call[1].now > SESSION_WINDOW_SECONDS
    /\ Len(AdmitsOf(call[1].session_id)) = MAX_MESSAGES_PER_SESSION + 1
    /\ NoOwnerKey
    /\ LastWindow(AdmitsOf(call[1].session_id)) = [start |-> clock, n |-> 1]
    /\ heap[SESSION_USAGE[call[1].session_id]]
           = [count |-> 1, start_time |-> clock]


\* ---------------------------------------------------------------------------
\* The service getters: get_rag_service and get_ticket_agent_service, each
\* called through Depends on a thread-pool thread.  An instance is named by
\* its ordinal among the constructed instances of its class.
\* ---------------------------------------------------------------------------

Getters == {"get_rag_service", "get_ticket_agent_service"}

\* A request thread calls a getter.
CallGetter(p, fn) ==
    /\ frame[p] = None
    /\ frame' = [frame EXCEPT ![p] =
                    Some([fn |-> fn,
                          at |-> IF fn = "get_rag_service" THEN "rag_test"
                                 ELSE "agent_test",
                          rag_service |-> 0])]
    /\ UNCHANGED <<pipeline, store, now, call, settings, SESSION_USAGE, heap,
                   clock, admits, services>>

\* get_ticket_agent_service: if _ticket_agent_service is None.
TestTicketAgentService(p) ==
    /\ At(p, "agent_test")
    /\ frame' = Goto(p, IF _ticket_agent_service = None THEN "rag_test"
                        ELSE "agent_return")
    /\ UNCHANGED <<pipeline, store, now, call, settings, SESSION_USAGE, heap,
                   clock, admits, services>>

\* get_rag_service: if _rag_service is None.
TestRagService(p) ==
    /\ At(p, "rag_test")
    /\ frame' = Goto(p, IF _rag_service = None THEN "rag_construct"
                        ELSE "rag_return")
    /\ UNCHANGED <<pipeline, store, now, call, settings, SESSION_USAGE, heap,
                   clock, admits, services>>

\* get_rag_service: _rag_service = RagService(get_vectorstore_client()).
ConstructRagService(p) ==
    /\ At(p, "rag_construct")
    /\ constructed' = [constructed EXCEPT !.RagService = @ + 1]
    /\ _rag_service' = Some(constructed.RagService + 1)
    /\ frame' = Goto(p, "rag_return")
    /\ UNCHANGED <<pipeline, store, now, call, settings, SESSION_USAGE, heap,
                   clock, admits, _ticket_agent_service>>

\* get_rag_service: return _rag_service, to the request or to
\* get_ticket_agent_service.
ReturnRagService(p) ==
    /\ At(p, "rag_return")
    /\ IF Frame(p).fn = "get_rag_service"
       THEN /\ frame' = [frame EXCEPT ![p] = None]
            /\ call' = Some([fn |-> "get_rag_service",
                             ret |-> _rag_service[1]])
       ELSE /\ frame' = [frame EXCEPT ![p] =
                            Some([Frame(p) EXCEPT
                                      !.rag_service = _rag_service[1],
                                      !.at = "agent_construct"])]
            /\ call' = call
    /\ UNCHANGED <<pipeline, store, now, settings, SESSION_USAGE, heap, clock,
                   admits, services>>

\* get_ticket_agent_service:
\* _ticket_agent_service = TicketAgentService(rag_service=rag_service).
ConstructTicketAgentService(p) ==
    /\ At(p, "agent_construct")
    /\ constructed' = [constructed EXCEPT !.TicketAgentService = @ + 1]
    /\ _ticket_agent_service' =
           Some([id |-> constructed.TicketAgentService + 1,
                 _rag_service |-> Frame(p).rag_service])
    /\ frame' = Goto(p, "agent_return")
    /\ UNCHANGED <<pipeline, store, now, call, settings, SESSION_USAGE, heap,
                   clock, admits, _rag_service>>

\* get_ticket_agent_service: return _ticket_agent_service.
ReturnTicketAgentService(p) ==
    /\ At(p, "agent_return")
    /\ frame' = [frame EXCEPT ![p] = None]
    /\ call' = Some([fn |-> "get_ticket_agent_service",
                     ret |-> _ticket_agent_service[1]])
    /\ UNCHANGED <<pipeline, store, now, settings, SESSION_USAGE, heap, clock,
                   admits, services>>

NextGetters ==
    \/ \E p \in Procs, fn \in Getters : CallGetter(p, fn)
    \/ \E p \in Procs : TestTicketAgentService(p)
    \/ \E p \in Procs : TestRagService(p)
    \/ \E p \in Procs : ConstructRagService(p)
    \/ \E p \in Procs : ReturnRagService(p)
    \/ \E p \in Procs : ConstructTicketAgentService(p)
    \/ \E p \in Procs : ReturnTicketAgentService(p)

SpecGetters == Init /\ [][NextGetters]_vars

\* C29: at most one RagService and one TicketAgentService are ever
\* constructed, also when the first calls of the getters run concurrently,
\* and every call of a getter returns that one instance.
C29_Singletons ==
    /\ constructed.RagService <= 1
    /\ constructed.TicketAgentService <= 1
    /\ Called("get_rag_service") => call[1].ret = 1
    /\ Called("get_ticket_agent_service") =>
           call[1].ret = [id |-> 1, _rag_service |-> 1]


\* ---------------------------------------------------------------------------
\* Tags written by create_ticket and read back through the API.
\* ---------------------------------------------------------------------------

\* The strings of the tag list the latest create_ticket call was given.
GivenTags == [i \in 1..Len(call[1].args.tags[1]) |-> call[1].args.tags[1][i].s]

\* C30: a tag list given to create_ticket comes back unchanged (same tags,
\* same order, same count) from the API read path: in the record PATCH
\* /tickets/{id}/feedback returns and in the record GET /tickets lists.
C30_TagsRoundTrip ==
    [][(Called("create_ticket") /\ call[1].args.tags # None /\ call' # None) =>
           LET id == call[1].ret[1].id IN
               /\ (call'[1].fn = "submit_ticket_feedback"
                       /\ call'[1].ticket_id = id) =>
                      call'[1].body[1].tags = GivenTags
               /\ call'[1].fn = "get_tickets" =>
                      \A i \in 1..Len(call'[1].body) :
                          call'[1].body[i].id = id =>
                              call'[1].body[i].tags = GivenTags]_vars

====
